---------------------------- MODULE Spec2Model ----------------------------
(***************************************************************************)
(* Model of multi_agent_implementation.py: the termination predicate       *)
(* ApprovalTerminationStrategy.should_agent_terminate and the turn driver  *)
(* run_multi_agent, which drains the response stream of the group chat.    *)
(*                                                                         *)
(* Python strings are TLA+ strings (Len, \o, SubSeq, Head and Tail apply). *)
(* A message is a record; a message object without a content attribute is  *)
(* a record without a content field.  A content value carries its Python   *)
(* type, since str() depends on it.                                        *)
(***************************************************************************)
EXTENDS Integers, Sequences, FiniteSets, TLC

VARIABLES
    pc,          \* position of the running coroutine
    agent,       \* the agent handed to should_agent_terminate
    history,     \* the chat history (a list of messages)
    ret,         \* outcome of the latest should_agent_terminate call
    input,       \* run_multi_agent's argument
    fault,       \* which external set-up call fails, if any
    stream,      \* what agent_group_chat.invoke() will do if never terminated
    is_complete, \* the group chat's completion flag, set from the strategy
    requested,   \* how many times the loop asked the stream for a response
    yielded,     \* every response the stream has yielded, in yield order
    response,    \* the loop variable of the async for
    responses,   \* run_multi_agent's result list
    printed,     \* the lines written to the console, in order
    result       \* what run_multi_agent returned or raised

vars == <<pc, agent, history, ret, input, fault, stream, is_complete, requested,
          yielded, response, responses, printed, result>>

(***************************************************************************)
(* Bounds of the model.                                                    *)
(***************************************************************************)
MaxHist == 3
MaxPad == 1
MaxTurns == 3

(***************************************************************************)
(* Strings.                                                                *)
(***************************************************************************)
SENTINEL == "READY FOR USER APPROVAL"

\* Python's `sub in s` on two strings: a left-to-right scan for an
\* occurrence of sub.
RECURSIVE Contains(_, _)
Contains(sub, s) ==
    IF Len(s) < Len(sub) THEN FALSE
    ELSE IF SubSeq(s, 1, Len(sub)) = sub THEN TRUE
    ELSE Contains(sub, Tail(s))

LOWERCASE == "abcdefghijklmnopqrstuvwxyz"
UPPERCASE == "ABCDEFGHIJKLMNOPQRSTUVWXYZ"

UpperMap ==
    [c \in {SubSeq(LOWERCASE, i, i) : i \in 1..Len(LOWERCASE)} |->
        LET i == CHOOSE j \in 1..Len(LOWERCASE) : SubSeq(LOWERCASE, j, j) = c
        IN SubSeq(UPPERCASE, i, i)]

\* Python's s.upper() on ASCII text.
RECURSIVE ToUpper(_)
ToUpper(s) ==
    IF s = "" THEN ""
    ELSE (IF Head(s) \in DOMAIN UpperMap THEN UpperMap[Head(s)] ELSE Head(s))
         \o ToUpper(Tail(s))

Digit == <<"0", "1", "2", "3", "4", "5", "6", "7", "8", "9">>

\* str() of a non-negative int.
RECURSIVE IntToStr(_)
IntToStr(n) ==
    IF n < 10 THEN Digit[n + 1] ELSE IntToStr(n \div 10) \o Digit[(n % 10) + 1]

\* repr() of a list of strings that hold no quote or escape: ['a', 'b'].
RECURSIVE ReprItems(_)
ReprItems(items) ==
    IF items = <<>> THEN ""
    ELSE IF Len(items) = 1 THEN "'" \o items[1] \o "'"
    ELSE "'" \o items[1] \o "', " \o ReprItems(Tail(items))

\* str(content) at line 25, by the Python type of content.
str(c) ==
    CASE c.type = "str" -> c.val
      [] c.type = "NoneType" -> "None"
      [] c.type = "int" -> IntToStr(c.val)
      [] c.type = "list" -> "[" \o ReprItems(c.val) \o "]"

\* hasattr(obj, name) at line 24.
hasattr(obj, name) == name \in DOMAIN obj

StrContent(s) == [type |-> "str", val |-> s]

(***************************************************************************)
(* The three personas of create_agents and the roles of AuthorRole.        *)
(***************************************************************************)
create_agents == <<"BusinessAnalyst", "SoftwareEngineer", "ProductOwner">>

Agents == {create_agents[i] : i \in 1..Len(create_agents)}

USER == "user"
ASSISTANT == "assistant"

\* ChatMessageContent(role=AuthorRole.USER, content=input) at line 94.
ChatMessageContent(role, name, content) ==
    [role |-> role, name |-> name, content |-> content]

(***************************************************************************)
(* ApprovalTerminationStrategy.should_agent_terminate(agent, history).     *)
(* The value is what the call does: how it ends, the boolean it returns,   *)
(* and the agent and the history as the call leaves them.                  *)
(***************************************************************************)
Return(v, a, h) ==
    [outcome |-> "return", value |-> v, error |-> "", agent |-> a, history |-> h]

Raise(e, a, h) ==
    [outcome |-> "raise", value |-> FALSE, error |-> e, agent |-> a, history |-> h]

\* Variants of should_agent_terminate, each with one slip of the kind the
\* code could have made.
\* content == 'READY FOR USER APPROVAL' in place of the substring test.
should_agent_terminate_eq(a, h) ==
    IF h # <<>>
    THEN LET last_message == h[Len(h)] IN
         IF hasattr(last_message, "content")
            /\ str(last_message.content) = SENTINEL
         THEN Return(TRUE, a, h)
         ELSE Return(FALSE, a, h)
    ELSE Return(FALSE, a, h)

\* any(... for m in history) in place of history[-1].
should_agent_terminate_any(a, h) ==
    IF \E i \in 1..Len(h) :
           hasattr(h[i], "content") /\ Contains(SENTINEL, str(h[i].content))
    THEN Return(TRUE, a, h)
    ELSE Return(FALSE, a, h)

\* str(content).upper() in place of str(content).
should_agent_terminate_upper(a, h) ==
    IF h # <<>>
    THEN LET last_message == h[Len(h)] IN
         IF hasattr(last_message, "content")
            /\ Contains(SENTINEL, ToUpper(str(last_message.content)))
         THEN Return(TRUE, a, h)
         ELSE Return(FALSE, a, h)
    ELSE Return(FALSE, a, h)

\* history[0] in place of history[-1].
should_agent_terminate_first(a, h) ==
    IF h # <<>>
    THEN LET last_message == h[1] IN
         IF hasattr(last_message, "content")
            /\ Contains(SENTINEL, str(last_message.content))
         THEN Return(TRUE, a, h)
         ELSE Return(FALSE, a, h)
    ELSE Return(FALSE, a, h)

\* history.pop() in place of history[-1].
should_agent_terminate_pop(a, h) ==
    IF h # <<>>
    THEN LET last_message == h[Len(h)]
             rest == SubSeq(h, 1, Len(h) - 1) IN
         IF hasattr(last_message, "content")
            /\ Contains(SENTINEL, str(last_message.content))
         THEN Return(TRUE, a, rest)
         ELSE Return(FALSE, a, rest)
    ELSE Return(FALSE, a, h)

\* last_message.content read without the hasattr guard.
should_agent_terminate_unguarded(a, h) ==
    IF h # <<>>
    THEN LET last_message == h[Len(h)] IN
         IF ~hasattr(last_message, "content")
         THEN Raise("AttributeError", a, h)
         ELSE IF Contains(SENTINEL, str(last_message.content))
         THEN Return(TRUE, a, h)
         ELSE Return(FALSE, a, h)
    ELSE Return(FALSE, a, h)

should_agent_terminate(a, h) ==
    IF h # <<>>
    THEN LET last_message == h[Len(h)] IN
         IF hasattr(last_message, "content")
            /\ Contains(SENTINEL, str(last_message.content))
         THEN Return(TRUE, a, h)
         ELSE Return(FALSE, a, h)
    ELSE Return(FALSE, a, h)

NoCall == [outcome |-> "none", value |-> FALSE, error |-> ""]

Outcome(r) == [outcome |-> r.outcome, value |-> r.value, error |-> r.error]


(***************************************************************************)
(* Inputs of the termination predicate: the histories it is called on.     *)
(***************************************************************************)
NoName == "<None>"

PadChars == {"x", "L"}

RECURSIVE Pads(_)
Pads(n) ==
    IF n = 0 THEN {""}
    ELSE Pads(n - 1) \cup {p \o c : p \in Pads(n - 1), c \in PadChars}

LOWER_SENTINEL == "ready for user approval"
TITLE_SENTINEL == "Ready For User Approval"
CUT_SENTINEL == "READY FOR USER APPROVA"
SPLIT_SENTINEL == "READY FOR USER  APPROVAL"

Cores ==
    {SENTINEL, LOWER_SENTINEL, TITLE_SENTINEL, CUT_SENTINEL, SPLIT_SENTINEL,
     "not yet", ""}

Texts == {pre \o core \o post : pre \in Pads(MaxPad), core \in Cores, post \in Pads(MaxPad)}

Contents ==
    {StrContent(t) : t \in Texts}
    \cup {[type |-> "NoneType"], [type |-> "int", val |-> 42],
          [type |-> "list", val |-> <<SENTINEL>>],
          [type |-> "list", val |-> <<"not yet", "x">>]}

Authors == {<<USER, NoName>>} \cup {<<ASSISTANT, a>> : a \in Agents}

\* An object in the history that has no content attribute.
Contentless == [role |-> ASSISTANT, name |-> "ProductOwner"]

LastMessages ==
    {ChatMessageContent(au[1], au[2], c) : au \in Authors, c \in Contents}
    \cup {Contentless}

EarlierMessages ==
    {ChatMessageContent(ASSISTANT, "ProductOwner", StrContent(SENTINEL)),
     ChatMessageContent(ASSISTANT, "BusinessAnalyst", StrContent("not yet")),
     ChatMessageContent(USER, NoName, StrContent("x" \o SENTINEL))}

RECURSIVE Prefixes(_)
Prefixes(n) ==
    IF n = 0 THEN {<<>>}
    ELSE Prefixes(n - 1) \cup {Append(p, m) : p \in Prefixes(n - 1), m \in EarlierMessages}

Histories ==
    {<<>>} \cup {Append(p, m) : p \in Prefixes(MaxHist - 1), m \in LastMessages}

(***************************************************************************)
(* The predicate called on a history: the framework awaits                 *)
(* should_agent_terminate(agent, history) and takes what it returns.       *)
(***************************************************************************)
NoMessage == [role |-> "", name |-> "", content |-> StrContent("")]
NoStream == [kind |-> "none", len |-> 0]
NoResult == [outcome |-> "none", value |-> <<>>]

DriverIdle ==
    /\ input = ""
    /\ fault = "none"
    /\ stream = NoStream
    /\ is_complete = FALSE
    /\ requested = 0
    /\ yielded = <<>>
    /\ response = NoMessage
    /\ responses = <<>>
    /\ printed = <<>>
    /\ result = NoResult

PredInit ==
    /\ pc = "call"
    /\ agent \in Agents
    /\ history \in Histories
    /\ ret = NoCall
    /\ DriverIdle

Call ==
    /\ pc = "call"
    /\ LET r == should_agent_terminate(agent, history) IN
         /\ ret' = Outcome(r)
         /\ agent' = r.agent
         /\ history' = r.history
    /\ pc' = "returned"
    /\ UNCHANGED <<input, fault, stream, is_complete, requested, yielded,
                   response, responses, printed, result>>

PredNext == Call

PredSpec == PredInit /\ [][PredNext]_vars

(***************************************************************************)
(* The environment of run_multi_agent.                                     *)
(*                                                                         *)
(* input is the caller's request.  fault names the external set-up call    *)
(* that fails (none of them, or one).  stream says what the response       *)
(* stream of agent_group_chat.invoke() does when the termination strategy  *)
(* never fires: it ends after len responses, it raises after len           *)
(* responses, or it goes on for ever.                                      *)
(***************************************************************************)
Inputs == {"I need a simple calculator web app", "reply " \o SENTINEL}

SetupSteps == <<"start", "agents", "chat", "add_message">>

Faults == {"none"} \cup {SetupSteps[i] : i \in 1..Len(SetupSteps)}

Streams ==
    {[kind |-> k, len |-> n] : k \in {"ends", "raises"}, n \in 0..MaxTurns}
    \cup {[kind |-> "endless", len |-> 0]}

ResponseTexts == {"not yet", LOWER_SENTINEL, "x" \o SENTINEL}

\* One turn of the group chat: the selected agent a answers with text, the
\* answer joins the history, and the termination strategy is asked.
GroupChatTurn(a, text, h) ==
    LET m == ChatMessageContent(ASSISTANT, a, StrContent(text)) IN
    [message |-> m, check |-> should_agent_terminate(a, Append(h, m))]

\* The stream has another response to give.  An endless stream is followed
\* for MaxTurns responses.
StreamOpen ==
    /\ ~is_complete
    /\ IF stream.kind = "endless" THEN Len(yielded) < MaxTurns
       ELSE Len(yielded) < stream.len

\* The stream stops: the strategy fired, or the stream ran out.
StreamDone ==
    is_complete \/ (stream.kind = "ends" /\ Len(yielded) = stream.len)

\* The stream raises on the next request.
StreamFails ==
    ~is_complete /\ stream.kind = "raises" /\ Len(yielded) = stream.len

(***************************************************************************)
(* run_multi_agent(input).                                                 *)
(***************************************************************************)
DriverInit ==
    /\ pc = "start"
    /\ agent = NoName
    /\ history = <<>>
    /\ ret = NoCall
    /\ input \in Inputs
    /\ fault \in Faults
    /\ stream \in Streams
    /\ is_complete = FALSE
    /\ requested = 0
    /\ yielded = <<>>
    /\ response = NoMessage
    /\ responses = <<>>
    /\ printed = <<>>
    /\ result = NoResult

\* The function ends by the exception in flight, which nothing catches.
Propagate_swallowed ==
    /\ pc' = "done"
    /\ result' = [outcome |-> "return", value |-> responses]

\* An exception of an awaited call leaves run_multi_agent: no statement of
\* it is inside a try.
Propagate ==
    /\ pc' = "raised"
    /\ result' = [outcome |-> "raise", value |-> <<>>]

\* Kernel(), AzureChatCompletion(...), kernel.add_service(...).
ConfigureKernel ==
    /\ pc = "start"
    /\ IF fault = "start" THEN Propagate ELSE pc' = "agents" /\ UNCHANGED result
    /\ UNCHANGED <<agent, history, ret, input, fault, stream, is_complete,
                   requested, yielded, response, responses, printed>>

\* await create_agents(kernel).
CreateAgents ==
    /\ pc = "agents"
    /\ IF fault = "agents" THEN Propagate ELSE pc' = "chat" /\ UNCHANGED result
    /\ UNCHANGED <<agent, history, ret, input, fault, stream, is_complete,
                   requested, yielded, response, responses, printed>>

\* The two strategies and AgentGroupChat(...).
CreateGroupChat ==
    /\ pc = "chat"
    /\ IF fault = "chat" THEN Propagate ELSE pc' = "add_message" /\ UNCHANGED result
    /\ UNCHANGED <<agent, history, ret, input, fault, stream, is_complete,
                   requested, yielded, response, responses, printed>>

\* await agent_group_chat.add_chat_message(...), then responses = [].
AddChatMessage ==
    /\ pc = "add_message"
    /\ IF fault = "add_message"
       THEN Propagate /\ UNCHANGED <<history, responses>>
       ELSE /\ history' = Append(history, ChatMessageContent(USER, NoName, StrContent(input)))
            /\ responses' = <<>>
            /\ pc' = "loop"
            /\ UNCHANGED result
    /\ UNCHANGED <<agent, ret, input, fault, stream, is_complete, requested,
                   yielded, response, printed>>

\* async for response in agent_group_chat.invoke(): the stream yields.
NextResponse ==
    /\ pc = "loop"
    /\ StreamOpen
    /\ \E a \in Agents, text \in ResponseTexts :
         LET t == GroupChatTurn(a, text, history) IN
         /\ agent' = t.check.agent
         /\ history' = t.check.history
         /\ ret' = Outcome(t.check)
         /\ IF t.check.outcome = "return"
            THEN /\ is_complete' = t.check.value
                 /\ yielded' = Append(yielded, t.message)
                 /\ response' = t.message
                 /\ pc' = "body"
                 /\ UNCHANGED result
            ELSE Propagate /\ UNCHANGED <<is_complete, yielded, response>>
    /\ requested' = requested + 1
    /\ UNCHANGED <<input, fault, stream, responses, printed>>

\* f"{response.name}: {response.content}"
FormatLine(m) == m.name \o ": " \o str(m.content)

\* responses.insert(0, response) in place of responses.append(response).
LoopBody_insert ==
    /\ pc = "body"
    /\ responses' = <<response>> \o responses
    /\ printed' = Append(printed, FormatLine(response))
    /\ pc' = "loop"
    /\ UNCHANGED <<agent, history, ret, input, fault, stream, is_complete,
                   requested, yielded, response, result>>

\* The loop body: responses.append(response); print(...).
LoopBody ==
    /\ pc = "body"
    /\ responses' = Append(responses, response)
    /\ printed' = Append(printed, FormatLine(response))
    /\ pc' = "loop"
    /\ UNCHANGED <<agent, history, ret, input, fault, stream, is_complete,
                   requested, yielded, response, result>>

\* The stream is exhausted: the loop ends and run_multi_agent returns.
LoopExit ==
    /\ pc = "loop"
    /\ StreamDone
    /\ requested' = requested + 1
    /\ pc' = "done"
    /\ result' = [outcome |-> "return", value |-> responses]
    /\ UNCHANGED <<agent, history, ret, input, fault, stream, is_complete,
                   yielded, response, responses, printed>>

\* The stream raises in place of a response.
LoopRaise ==
    /\ pc = "loop"
    /\ StreamFails
    /\ requested' = requested + 1
    /\ Propagate
    /\ UNCHANGED <<agent, history, ret, input, fault, stream, is_complete,
                   yielded, response, responses, printed>>

Init == DriverInit

Next ==
    \/ ConfigureKernel
    \/ CreateAgents
    \/ CreateGroupChat
    \/ AddChatMessage
    \/ NextResponse
    \/ LoopBody
    \/ LoopExit
    \/ LoopRaise

Spec == Init /\ [][Next]_vars

\* The event loop runs the one coroutine whenever it can take a step.
LiveSpec == Init /\ [][Next]_vars /\ WF_vars(Next)

(***************************************************************************)
(* Properties of the termination predicate, under PredSpec.                *)
(***************************************************************************)
\* t has an occurrence of the sentinel at some position.
HasSentinel(t) ==
    \E i \in 1..Len(t) :
        /\ i + Len(SENTINEL) - 1 <= Len(t)
        /\ SubSeq(t, i, i + Len(SENTINEL) - 1) = SENTINEL

\* The message has a content whose text holds the sentinel.
SaysSentinel(m) == ("content" \in DOMAIN m) /\ HasSentinel(str(m.content))

Returned == pc = "returned"

Last(h) == h[Len(h)]

\* C1: the call returns true if and only if the history is non-empty and the
\* text of its last message's content contains "READY FOR USER APPROVAL";
\* it returns false otherwise, the empty history included.
C1_TrueIffLastHasSentinel ==
    Returned =>
        /\ ret.outcome = "return"
        /\ ret.value = (history # <<>> /\ SaysSentinel(Last(history)))

C1_Witness ==
    /\ Returned
    /\ history # <<>>
    /\ "content" \in DOMAIN Last(history)
    /\ Last(history).content = StrContent("x" \o SENTINEL \o "L")
    /\ ret.value = TRUE

\* C2: the result depends only on the last message: every history with the
\* same last message gives the same result, a sentinel in an earlier message
\* does not terminate when the last message lacks it, and a prefix without
\* the sentinel does not block termination when the last message has it.
C2_OnlyLastMessage ==
    (Returned /\ history # <<>>) =>
        /\ \A p \in Prefixes(MaxHist - 1) :
               should_agent_terminate(agent, Append(p, Last(history))).value = ret.value
        /\ ((\E i \in 1..(Len(history) - 1) : SaysSentinel(history[i]))
               /\ ~SaysSentinel(Last(history))) => ret.value = FALSE
        /\ ((\A i \in 1..(Len(history) - 1) : ~SaysSentinel(history[i]))
               /\ SaysSentinel(Last(history))) => ret.value = TRUE

C2_Witness ==
    /\ Returned
    /\ Len(history) >= 2
    /\ SaysSentinel(history[1])
    /\ ~SaysSentinel(Last(history))
    /\ ret.value = FALSE

\* C3: the match is case-sensitive on the literal: content that holds the
\* phrase only in another letter case gives false, and content that embeds
\* the literal as prefix, middle or suffix gives true.
C3_CaseSensitive ==
    (Returned /\ history # <<>> /\ "content" \in DOMAIN Last(history)
              /\ Last(history).content.type = "str") =>
        LET t == Last(history).content.val IN
        /\ (\E pre \in Pads(MaxPad), post \in Pads(MaxPad) : t = pre \o SENTINEL \o post)
               => ret.value = TRUE
        /\ (\E pre \in Pads(MaxPad), post \in Pads(MaxPad) :
                t \in {pre \o LOWER_SENTINEL \o post, pre \o TITLE_SENTINEL \o post})
               => ret.value = FALSE

C3_Witness ==
    /\ Returned
    /\ history # <<>>
    /\ "content" \in DOMAIN Last(history)
    /\ Last(history).content = StrContent("x" \o LOWER_SENTINEL)
    /\ ret.value = FALSE

\* C4: the call has no side effects: it leaves the history (length, order
\* and every message) and the agent as they were, whatever it returns.
C4_NoSideEffects ==
    [][(pc = "call" /\ pc' = "returned") => (history' = history /\ agent' = agent)]_vars

C4_Witness ==
    /\ Returned
    /\ Len(history) >= 2
    /\ ret.value = TRUE

\* C5: the call always ends by returning a boolean, never by raising: on the
\* empty history, on a last message without a content attribute, and on a
\* content that is not a string.
C5_AlwaysReturnsBoolean ==
    Returned =>
        /\ ret.outcome = "return"
        /\ ret.error = ""
        /\ ret.value \in BOOLEAN
        /\ (history = <<>> => ret.value = FALSE)
        /\ (history # <<>> /\ "content" \notin DOMAIN Last(history)) => ret.value = FALSE

C5_Witness ==
    /\ Returned
    /\ history # <<>>
    /\ "content" \notin DOMAIN Last(history)
    /\ ret.outcome = "return"
    /\ ret.value = FALSE

\* C9: the call returns true only if the last message was authored by the
\* ProductOwner agent.
C9_OnlyProductOwnerTerminates ==
    (Returned /\ ret.value = TRUE) =>
        (Last(history).role = ASSISTANT /\ Last(history).name = "ProductOwner")

(***************************************************************************)
(* Properties of run_multi_agent, under Spec and LiveSpec.                 *)
(***************************************************************************)
UserMessage == ChatMessageContent(USER, NoName, StrContent(input))

C6_Prefix ==
    /\ Len(responses) <= Len(yielded)
    /\ responses = SubSeq(yielded, 1, Len(responses))
    /\ Len(yielded) - Len(responses) = (IF pc = "body" THEN 1 ELSE 0)
    /\ Len(printed) = Len(responses)
    /\ \A i \in 1..Len(responses) :
           /\ printed[i] = responses[i].name \o ": " \o responses[i].content.val
           /\ responses[i] # UserMessage
           /\ responses[i].role # USER
    /\ (pc = "done") => (result.outcome = "return" /\ result.value = yielded)

C6_AppendOnly ==
    \/ responses' = responses
    \/ /\ Len(responses') = Len(responses) + 1
       /\ SubSeq(responses', 1, Len(responses)) = responses

\* C6: the result list is at every step the prefix of the stream consumed
\* so far, it grows only by appending, every response is printed once in
\* the same order, the user message is never in it, and the list returned
\* is the whole stream in yield order.
C6_ResultIsTheStream == []C6_Prefix /\ [][C6_AppendOnly]_vars

C6_Witness ==
    /\ pc = "done"
    /\ Len(result.value) = MaxTurns
    /\ result.value[1].name # result.value[2].name
    /\ result.value[1].content # result.value[2].content

C7_OnlyLastHasSentinel ==
    /\ \A i \in 1..(Len(yielded) - 1) : ~SaysSentinel(yielded[i])
    /\ \A i \in 1..(Len(responses) - 1) : ~SaysSentinel(responses[i])
    /\ \A i \in 1..(Len(result.value) - 1) : ~SaysSentinel(result.value[i])

C7_NothingAfterSentinel ==
    (responses # <<>> /\ SaysSentinel(Last(responses))) =>
        (yielded' = yielded /\ responses' = responses /\ printed' = printed)

C8_NoPartialResult ==
    /\ (pc = "raised") => (result.outcome = "raise" /\ result.value = <<>>)
    /\ (result.outcome = "return") => (pc = "done" /\ StreamDone)
    /\ (fault # "none") =>
           (pc \notin {"loop", "body", "done"} /\ requested = 0 /\ yielded = <<>>)

C8_FailureEndsTheRun ==
    /\ (pc = fault) => (pc' = "raised" /\ result'.outcome = "raise")
    /\ (pc = "loop" /\ StreamFails) =>
           (pc' = "raised" /\ result'.outcome = "raise" /\ responses' = responses)
    /\ (pc = "raised") => (requested' = requested /\ pc' = "raised")

\* C8: a failure of an external call (in the set-up, in add_chat_message, or
\* in the stream) ends run_multi_agent by that exception: the failed step is
\* not retried, no further response is requested, and no list is returned.
C8_FailurePropagates == []C8_NoPartialResult /\ [][C8_FailureEndsTheRun]_vars

C8_Witness ==
    /\ pc = "raised"
    /\ stream.kind = "raises"
    /\ Len(responses) >= 1
    /\ requested = Len(responses) + 1
    /\ result.outcome = "raise"

C10_ReturnsOnlyWhenStreamStops ==
    (pc = "done") =>
        /\ StreamDone
        /\ (stream.kind = "endless") =>
               (responses # <<>> /\ SaysSentinel(Last(responses)))

\* C10: run_multi_agent returns when the stream is finite and when a
\* response contains the sentinel; it returns only because the stream
\* stopped, so on an endless stream without the sentinel it never returns.
C10_ReturnsIffStreamStops ==
    /\ (pc = "loop" /\ stream.kind = "ends") ~> (pc = "done")
    /\ (pc = "body" /\ SaysSentinel(response)) ~> (pc = "done")
    /\ []C10_ReturnsOnlyWhenStreamStops

C10_Witness ==
    /\ pc = "done"
    /\ stream.kind = "ends"
    /\ stream.len >= 2
    /\ Len(result.value) = stream.len
    /\ ~is_complete

=============================================================================
